---------------------------- MODULE Spec2Model ----------------------------
(***************************************************************************)
(* A model of dirhypernets: the four degree-distribution transforms of     *)
(* distribution.py, and the persistence and degree-extraction functions of *)
(* functions.py.                                                           *)
(*                                                                         *)
(* Floating-point values are modelled by exact rationals <<n, d>> (d > 0), *)
(* geometric sample points by the integer powers that decide every         *)
(* comparison the code makes with them.  A raised Python exception is the  *)
(* outcome "error" with no series returned.                                *)
(***************************************************************************)
EXTENDS Integers, Sequences, FiniteSets, TLC

VARIABLES
    fn,          \* the function called last ("none" before any call)
    outcome,     \* "none" | "ok" | "error": how the last call ended
    \* distribution.py
    degrees,     \* the degree sequence handed to a transform
    num,         \* the bin count handed to a transform (num / n_bins)
    x,           \* first returned array of the last transform
    y,           \* second returned array of the last transform
    \* get_degrees
    deg_type,    \* the orientation tag
    networks,    \* the graph records handed to get_degrees
    degs,        \* the returned list of degrees
    \* save_G_coords / get_G_coords
    G_coords,    \* the record handed to save_G_coords
    edgelist_file,  \* the file at edgelist_path
    coords_file,    \* the file at coords_path
    loaded,      \* the record returned by get_G_coords, if it was the last call
    \* save_networks / get_networks
    dir_exists,  \* whether the directory at path exists
    dir_files,   \* the files of the directory: file name -> content
    saved,       \* the list whose files save_networks wrote into the directory
    deleted,     \* the number of those files deleted since
    before,      \* the directory as save_networks found it, if it was the last call
    fetched      \* the list returned by get_networks, if it was the last call

distVars == <<degrees, num, x, y>>
degVars == <<deg_type, networks, degs>>
recVars == <<G_coords, edgelist_file, coords_file, loaded>>
dirVars == <<dir_exists, dir_files, saved, deleted, before, fetched>>
vars == <<fn, outcome, distVars, degVars, recVars, dirVars>>

\* Bounds of the inputs of the distribution transforms.
MaxLen == 3
MaxDeg == 4
MaxNum == 4

\* Degree values fed to the transforms: the legal ones and one negative one.
DegreeValues == (0..MaxDeg) \cup {-1}

DegreeSequences == UNION {[1..n -> DegreeValues] : n \in 0..MaxLen}

-----------------------------------------------------------------------------
(* Python / numpy primitives                                               *)

RECURSIVE Pow(_, _)
Pow(b, e) == IF e = 0 THEN 1 ELSE b * Pow(b, e - 1)

Range(s) == {s[i] : i \in DOMAIN s}

\* min(degrees), max(degrees) of a non-empty sequence
SeqMin(s) == CHOOSE m \in Range(s) : \A v \in Range(s) : m <= v
SeqMax(s) == CHOOSE m \in Range(s) : \A v \in Range(s) : m >= v

IntMax(a, b) == IF a >= b THEN a ELSE b

\* np.bincount(degrees)[v]: the number of positions holding v
BinCount(s, v) == Cardinality({i \in DOMAIN s : s[i] = v})

\* The elements of a finite set of integers in ascending order
RECURSIVE Ascending(_)
Ascending(S) ==
    IF S = {} THEN <<>>
    ELSE LET m == CHOOSE a \in S : \A b \in S : a <= b
         IN  <<m>> \o Ascending(S \ {m})

RECURSIVE SumOver(_, _)
SumOver(S, f) ==
    IF S = {} THEN 0
    ELSE LET a == CHOOSE b \in S : TRUE
         IN  f[a] + SumOver(S \ {a}, f)

Error == [outcome |-> "error", x |-> <<>>, y |-> <<>>]
Ok(xs, ys) == [outcome |-> "ok", x |-> xs, y |-> ys]

-----------------------------------------------------------------------------
(* distribution.py                                                         *)

\* rho = np.bincount(degrees).astype(float)/len(degrees): the indices (degree
\* values) of rho, 0..max(degrees); none for an empty list.
RhoIndices(D) == IF D = <<>> THEN {} ELSE 0..SeqMax(D)

\* np.nonzero(rho): the indices whose frequency is not zero
NonZero(D) == {v \in RhoIndices(D) : BinCount(D, v) # 0}

\* np.arange(len(degrees)): the array that k is taken from
KBase(D) == 0..(Len(D) - 1)

\* degree_distribution(degrees).  np.bincount raises on a negative element;
\* indexing np.arange(len(degrees)) with an index >= len(degrees) raises
\* IndexError.
degree_distribution(D) ==
    IF \E i \in DOMAIN D : D[i] < 0 THEN Error
    ELSE IF ~(NonZero(D) \subseteq KBase(D)) THEN Error
    ELSE LET k == Ascending(NonZero(D))
         IN  Ok(k, [i \in DOMAIN k |-> <<BinCount(D, k[i]), Len(D)>>])

\* The degree column of the frame: np.arange(max+1)[max(1, min):]
BinningDomainWithZero(D) == SeqMin(D)..SeqMax(D)
BinningDomain(D) == IntMax(1, SeqMin(D))..SeqMax(D)

\* np.digitize(d, bins) for the increasing boundaries
\* bins[i] = lo * (hi/lo)^(i/n), i = 0..n-1 (np.geomspace, endpoint=False):
\* the number of boundaries b with b <= d.  lo*(hi/lo)^(i/n) <= d exactly when
\* lo^(n-i) * hi^i <= d^n.
Digitize(d, lo, hi, n) ==
    Cardinality({i \in 0..(n - 1) : Pow(lo, n - i) * Pow(hi, i) <= Pow(d, n)})

\* log_binning(degrees, num).  max() of an empty list and np.bincount of a
\* negative element raise.  Rows are the groups of df.groupby('bin').mean(),
\* in ascending bin label: x the mean degree, y the mean frequency.
log_binning(D, n) ==
    IF D = <<>> THEN Error
    ELSE IF \E i \in DOMAIN D : D[i] < 0 THEN Error
    ELSE LET dom    == BinningDomain(D)
             lo     == IntMax(1, SeqMin(D))
             hi     == SeqMax(D)
             bin    == [d \in dom |-> Digitize(d, lo, hi, n)]
             labels == Ascending({bin[d] : d \in dom})
             grp(b) == {d \in dom : bin[d] = b}
             id     == [d \in dom |-> d]
             cnt    == [d \in dom |-> BinCount(D, d)]
         IN  Ok([r \in DOMAIN labels |->
                    <<SumOver(grp(labels[r]), id), Cardinality(grp(labels[r]))>>],
                [r \in DOMAIN labels |->
                    <<SumOver(grp(labels[r]), cnt),
                      Cardinality(grp(labels[r])) * Len(D)>>])

\* right_prop(split): np.sum([i > split for i in degrees]) / len(degrees), for
\* the split p/q
RightPropInclusive(D, p, q) ==
    <<Cardinality({i \in DOMAIN D : D[i] * q >= p}), Len(D)>>
RightProp(D, p, q) ==
    <<Cardinality({i \in DOMAIN D : D[i] * q > p}), Len(D)>>

\* np.linspace(start, stop, n, endpoint=True)[i] as the rational <<p, q>>
Linspace(start, stop, n, i) ==
    IF n = 1 THEN <<start, 1>>
    ELSE <<start * (n - 1) + i * (stop - start), n - 1>>

\* cumulative_distribution(degrees, n_bins).  min() of an empty list raises.
cumulative_distribution(D, n) ==
    IF D = <<>> THEN Error
    ELSE LET xs == [i \in 1..n |-> Linspace(SeqMin(D), SeqMax(D) + 1, n, i - 1)]
         IN  Ok(xs, [i \in 1..n |-> RightProp(D, xs[i][1], xs[i][2])])

\* np.geomspace(lo, hi, n, endpoint=True)[i] = lo^(1-i/(n-1)) * hi^(i/(n-1)),
\* kept as the tuple <<lo, hi, i, n>> that determines it.
Geomspace(lo, hi, n, i) == <<lo, hi, i, n>>

\* d > g for the geometric sample point g = <<lo, hi, i, n>> (0 < lo <= hi)
AboveGeom(d, g) ==
    LET lo == g[1]  hi == g[2]  i == g[3]  n == g[4]
    IN  IF n = 1 THEN d > lo
        ELSE d > 0 /\ Pow(d, n - 1) > Pow(lo, n - 1 - i) * Pow(hi, i)

\* log_cumulative_distribution(degrees, n_bins).  min() of an empty list
\* raises; np.geomspace raises when an end point is 0.
log_cumulative_distribution(D, n) ==
    IF D = <<>> THEN Error
    ELSE IF SeqMax(D) + 1 = 0 THEN Error
    ELSE LET lo == IntMax(1, SeqMin(D))
             hi == SeqMax(D) + 1
             xs == [i \in 1..n |-> Geomspace(lo, hi, n, i - 1)]
         IN  Ok(xs, [i \in 1..n |->
                       <<Cardinality({j \in DOMAIN D : AboveGeom(D[j], xs[i])}),
                         Len(D)>>])

-----------------------------------------------------------------------------
(* Calls of the transforms                                                 *)

DegreeDistribution ==
    LET r == degree_distribution(degrees)
    IN  /\ fn' = "degree_distribution"
        /\ outcome' = r.outcome /\ x' = r.x /\ y' = r.y
        /\ UNCHANGED <<degrees, num, degVars, recVars, dirVars>>

LogBinning ==
    LET r == log_binning(degrees, num)
    IN  /\ fn' = "log_binning"
        /\ outcome' = r.outcome /\ x' = r.x /\ y' = r.y
        /\ UNCHANGED <<degrees, num, degVars, recVars, dirVars>>

CumulativeDistribution ==
    LET r == cumulative_distribution(degrees, num)
    IN  /\ fn' = "cumulative_distribution"
        /\ outcome' = r.outcome /\ x' = r.x /\ y' = r.y
        /\ UNCHANGED <<degrees, num, degVars, recVars, dirVars>>

LogCumulativeDistribution ==
    LET r == log_cumulative_distribution(degrees, num)
    IN  /\ fn' = "log_cumulative_distribution"
        /\ outcome' = r.outcome /\ x' = r.x /\ y' = r.y
        /\ UNCHANGED <<degrees, num, degVars, recVars, dirVars>>

-----------------------------------------------------------------------------
(* Graph records                                                           *)

\* Bounds of the graph records.
MaxNodes == 2
MaxRecords == 2

\* A networkx DiGraph: its nodes in iteration (insertion) order and, per node,
\* its successors in insertion order.
MakeGraph(order, E) ==
    [nodes |-> order,
     adj   |-> [n \in Range(order) |-> Ascending({e[2] : e \in {f \in E : f[1] = n}})]]

Nodes(G) == Range(G.nodes)
Edges(G) == {<<u, v>> \in Nodes(G) \X Nodes(G) : v \in Range(G.adj[u])}

Identity(N) == [i \in 1..N |-> i - 1]
Reversed(N) == [i \in 1..N |-> N - i]

\* Coordinate values, in tenths: -0.5, 0.0, 1.5, 12.0
CoordSamples == <<-5, 0, 15, 120>>

\* A coordinate tuple of k arrays of length N
CoordTuple(N, k, s) ==
    [a \in 1..k |-> [i \in 1..N |-> CoordSamples[((a + i + s) % 4) + 1]]]

\* Graphs on 0..N-1 whose edges lie on a directed ring, plus a loop at node 0,
\* iterated in ascending or descending node order.
RingEdges(N) == {<<i, (i + 1) % N>> : i \in 0..(N - 1)} \cup {<<0, 0>>}
RingGraphs ==
    UNION {{MakeGraph(o, E) : o \in {Identity(N), Reversed(N)}, E \in SUBSET RingEdges(N)}
           : N \in 1..MaxNodes} \cup {MakeGraph(<<>>, {})}

\* Every directed graph on 0..N-1 (loops allowed), N <= MaxNodes
AllGraphs ==
    UNION {{MakeGraph(Identity(N), E) : E \in SUBSET ((0..(N - 1)) \X (0..(N - 1)))}
           : N \in 0..MaxNodes}

Record(G, k, s) == [G |-> G, coords |-> CoordTuple(Len(G.nodes), k, s)]

-----------------------------------------------------------------------------
(* functions.py: get_degrees                                               *)

\* G.in_degree, G.out_degree, G.degree of node n
InDegree(G, n) == Cardinality({u \in Nodes(G) : n \in Range(G.adj[u])})
OutDegree(G, n) == Len(G.adj[n])
Degree(G, n) == InDegree(G, n) + OutDegree(G, n)

\* deg_func(G): the dictionary of degree views, each iterating the nodes in
\* the graph's node order
DegFuncSwapped(G) ==
    [all |-> [i \in DOMAIN G.nodes |-> Degree(G, G.nodes[i])],
     in  |-> [i \in DOMAIN G.nodes |-> OutDegree(G, G.nodes[i])],
     out |-> [i \in DOMAIN G.nodes |-> InDegree(G, G.nodes[i])]]
deg_func(G) ==
    [all |-> [i \in DOMAIN G.nodes |-> Degree(G, G.nodes[i])],
     in  |-> [i \in DOMAIN G.nodes |-> InDegree(G, G.nodes[i])],
     out |-> [i \in DOMAIN G.nodes |-> OutDegree(G, G.nodes[i])]]

RECURSIVE Flatten(_)
Flatten(ss) == IF ss = <<>> THEN <<>> ELSE Head(ss) \o Flatten(Tail(ss))

\* get_degrees(deg_type, *networks): the dictionary lookup raises KeyError for
\* an unknown tag as soon as the first record is reached.
get_degrees(t, nets) ==
    IF nets = <<>> THEN [outcome |-> "ok", degs |-> <<>>]
    ELSE IF t \notin DOMAIN deg_func(nets[1].G) THEN [outcome |-> "error", degs |-> <<>>]
    ELSE [outcome |-> "ok",
          degs |-> Flatten([i \in DOMAIN nets |-> deg_func(nets[i].G)[t]])]

GetDegrees ==
    LET r == get_degrees(deg_type, networks)
    IN  /\ fn' = "get_degrees"
        /\ outcome' = r.outcome
        /\ degs' = r.degs
        /\ UNCHANGED <<deg_type, networks, distVars, recVars, dirVars>>

-----------------------------------------------------------------------------
(* Text: strings are sequences of character codes                          *)

Space == <<32>>
Dot == <<46>>
Minus == <<45>>
Underscore == <<95>>
TxtSuffix == <<46, 116, 120, 116>>                        \* ".txt"
EdgelistWord == <<101, 100, 103, 101, 108, 105, 115, 116>>  \* "edgelist"
CoordsWord == <<99, 111, 111, 114, 100, 115>>              \* "coords"
Theta == <<116, 104, 101, 116, 97>>                        \* "theta"
Radius == <<114, 97, 100, 105, 117, 115>>                  \* "radius"
RadiusP == Radius \o <<95, 112>>                           \* "radius_p"
RadiusM == Radius \o <<95, 109>>                           \* "radius_m"

\* str(n) / '{}'.format(n) of a natural number: its decimal digits
RECURSIVE Digits(_)
Digits(n) == IF n < 10 THEN <<48 + n>> ELSE Digits(n \div 10) \o <<48 + (n % 10)>>

\* int(token) of a string of decimal digits
RECURSIVE IntOf(_)
IntOf(t) ==
    IF t = <<>> THEN 0
    ELSE IntOf(SubSeq(t, 1, Len(t) - 1)) * 10 + (t[Len(t)] - 48)

\* line.split(): the tokens of a line, separated by spaces
RECURSIVE Split(_)
Split(t) ==
    IF t = <<>> THEN <<>>
    ELSE IF t[1] = 32 THEN Split(Tail(t))
    ELSE LET stops == {i \in DOMAIN t : t[i] = 32}
             stop  == IF stops = {} THEN Len(t) + 1
                      ELSE CHOOSE i \in stops : \A j \in stops : i <= j
         IN  <<SubSeq(t, 1, stop - 1)>> \o Split(SubSeq(t, stop, Len(t)))

\* ' '.join(tokens)
RECURSIVE Join(_)
Join(ts) ==
    IF ts = <<>> THEN <<>>
    ELSE IF Len(ts) = 1 THEN ts[1]
    ELSE ts[1] \o Space \o Join(Tail(ts))

\* The text to_csv writes for a float, given in tenths: sign, integer digits,
\* point, one fractional digit
FormatFloat(v) ==
    LET a == IF v < 0 THEN -v ELSE v
    IN  (IF v < 0 THEN Minus ELSE <<>>) \o Digits(a \div 10) \o Dot \o Digits(a % 10)

\* The float read_csv parses from such a text, in tenths
ParseFloat(t) ==
    LET neg  == t # <<>> /\ t[1] = 45
        body == IF neg THEN Tail(t) ELSE t
        dot  == CHOOSE i \in DOMAIN body : body[i] = 46
        a    == IntOf(SubSeq(body, 1, dot - 1)) * 10
                    + IntOf(SubSeq(body, dot + 1, Len(body)))
    IN  IF neg THEN -a ELSE a

\* sub in p
Contains(p, sub) ==
    \E i \in 0..(Len(p) - Len(sub)) : SubSeq(p, i + 1, i + Len(sub)) = sub

\* p < q for Python strings: at the first differing character, or as a prefix
StrLess(p, q) ==
    \/ \E i \in 1..Len(p) :
           /\ i <= Len(q)
           /\ SubSeq(p, 1, i - 1) = SubSeq(q, 1, i - 1)
           /\ p[i] < q[i]
    \/ Len(p) < Len(q) /\ SubSeq(q, 1, Len(p)) = p

\* sorted(names)
RECURSIVE Sorted(_)
Sorted(S) ==
    IF S = {} THEN <<>>
    ELSE LET m == CHOOSE a \in S : \A b \in S \ {a} : StrLess(a, b)
         IN  <<m>> \o Sorted(S \ {m})

-----------------------------------------------------------------------------
(* functions.py: save_G_coords, get_G_coords                               *)

\* A file: missing, or its lines.  An optional value: <<>> or <<value>>.
NoFile == [present |-> FALSE, lines |-> <<>>]
File(lines) == [present |-> TRUE, lines |-> lines]

\* G.edges(data=False): per node in node order, its out-edges
EdgeList(G) ==
    Flatten([i \in DOMAIN G.nodes |->
                [j \in DOMAIN G.adj[G.nodes[i]] |-> <<G.nodes[i], G.adj[G.nodes[i]][j]>>]])

\* nx.write_edgelist(G, path, data=False): one line "u v" per edge
write_edgelist(G) ==
    LET es == EdgeList(G)
    IN  [i \in DOMAIN es |-> Digits(es[i][1]) \o Space \o Digits(es[i][2])]

\* The column names chosen for n_cols arrays or columns
Cols(n_cols) == IF n_cols = 2 THEN <<Theta, Radius>> ELSE <<Theta, RadiusP, RadiusM>>

\* pd.DataFrame(dict(zip(cols, coords))).to_csv(path, index=None, sep=' '):
\* a header line and one line per row.  zip stops at the shorter of the two.
to_csv(coords) ==
    LET cols  == Cols(Len(coords))
        width == IF Len(coords) < Len(cols) THEN Len(coords) ELSE Len(cols)
        rows  == IF width = 0 THEN 0 ELSE Len(coords[1])
    IN  <<Join(SubSeq(cols, 1, width))>> \o
        [r \in 1..rows |-> Join([a \in 1..width |-> FormatFloat(coords[a][r])])]

\* save_G_coords(G_coords, edgelist_path, coords_path): the two file contents
save_G_coords(rec) == [edgelist |-> write_edgelist(rec.G), coords |-> to_csv(rec.coords)]

\* nx.read_edgelist(path, create_using=nx.DiGraph(), nodetype=int): nodes in
\* order of first appearance, successors in order of appearance
RECURSIVE Dedup(_)
Dedup(q) ==
    IF q = <<>> THEN <<>>
    ELSE LET front == Dedup(SubSeq(q, 1, Len(q) - 1))
             last  == q[Len(q)]
         IN  IF last \in Range(front) THEN front ELSE Append(front, last)

read_edgelist(lines) ==
    LET pairs == SelectSeq(lines, LAMBDA l : Len(Split(l)) >= 2)
        es    == [i \in DOMAIN pairs |->
                     <<IntOf(Split(pairs[i])[1]), IntOf(Split(pairs[i])[2])>>]
        order == Dedup(Flatten([i \in DOMAIN es |-> <<es[i][1], es[i][2]>>]))
        succ(n) == Dedup(Flatten([i \in DOMAIN es |->
                                     IF es[i][1] = n THEN <<es[i][2]>> ELSE <<>>]))
    IN  [nodes |-> order, adj |-> [n \in Range(order) |-> succ(n)]]

\* G.add_nodes_from(ids): new nodes are appended, known ones are kept
RECURSIVE add_nodes_from(_, _)
add_nodes_from(G, ids) ==
    IF ids = <<>> THEN G
    ELSE IF ids[1] \in Nodes(G) THEN add_nodes_from(G, Tail(ids))
    ELSE add_nodes_from([nodes |-> Append(G.nodes, ids[1]),
                         adj   |-> [n \in Nodes(G) \cup {ids[1]} |->
                                       IF n \in Nodes(G) THEN G.adj[n] ELSE <<>>]],
                        Tail(ids))

\* The nodes get_G_coords adds to the graph read from the edge list
PaddingNone(n_rows) == <<>>
Padding(n_rows) == [i \in 1..n_rows |-> i - 1]

\* get_G_coords(edgelist_path, coords_path).  A missing file raises; so does
\* df[col] for a column the header does not name.
get_G_coords(edgelist, coords) ==
    IF ~edgelist.present \/ ~coords.present THEN [outcome |-> "error"]
    ELSE LET header == Split(coords.lines[1])
             rows   == [r \in 1..(Len(coords.lines) - 1) |-> Split(coords.lines[r + 1])]
             cols   == Cols(Len(header))
             at(c)  == CHOOSE a \in DOMAIN header : header[a] = c
         IN  IF \E c \in Range(cols) : c \notin Range(header)
             THEN [outcome |-> "error"]
             ELSE [outcome |-> "ok",
                   G       |-> add_nodes_from(read_edgelist(edgelist.lines),
                                             Padding(Len(rows))),
                   coords  |-> [a \in DOMAIN cols |->
                                   [r \in DOMAIN rows |-> ParseFloat(rows[r][at(cols[a])])]]]

SaveGCoords ==
    LET w == save_G_coords(G_coords)
    IN  /\ fn' = "save_G_coords"
        /\ outcome' = "ok"
        /\ edgelist_file' = File(w.edgelist)
        /\ coords_file' = File(w.coords)
        /\ loaded' = <<>>
        /\ UNCHANGED <<G_coords, distVars, degVars, dirVars>>

GetGCoords ==
    LET r == get_G_coords(edgelist_file, coords_file)
    IN  /\ fn' = "get_G_coords"
        /\ outcome' = r.outcome
        /\ loaded' = IF r.outcome = "ok" THEN <<[G |-> r.G, coords |-> r.coords]>> ELSE <<>>
        /\ UNCHANGED <<G_coords, edgelist_file, coords_file, distVars, degVars, dirVars>>

-----------------------------------------------------------------------------
(* functions.py: save_networks, get_networks                               *)

\* Bounds of the collections and of the deletions made behind the program.
MaxNets == 11
MaxDeleted == 1

NoFiles == [n \in {} |-> <<>>]
NoDirectory == [exists |-> FALSE, files |-> NoFiles]

\* 'edgelist_{}.txt'.format(i), 'coords_{}.txt'.format(i)
FileName(word, i) == word \o Underscore \o Digits(i) \o TxtSuffix

\* The files the loop of save_networks writes: record i (from 0) into
\* edgelist_<i>.txt and coords_<i>.txt
WrittenFiles(nets) ==
    LET names == {FileName(w, i) : w \in {EdgelistWord, CoordsWord}, i \in 0..(Len(nets) - 1)}
    IN  [n \in names |->
            LET i == CHOOSE k \in 0..(Len(nets) - 1) :
                        n \in {FileName(EdgelistWord, k), FileName(CoordsWord, k)}
                w == save_G_coords(nets[i + 1])
            IN  IF n = FileName(EdgelistWord, i) THEN w.edgelist ELSE w.coords]

\* The guard of save_networks: an existing directory that holds a file
NeverRefuses(exists, files) == FALSE
Refuses(exists, files) == exists /\ DOMAIN files # {}

\* save_networks(networks, path): the directory afterwards
save_networks(nets, exists, files) ==
    IF Refuses(exists, files)
    THEN [outcome |-> "error", exists |-> exists, files |-> files]
    ELSE [outcome |-> "ok", exists |-> TRUE, files |-> WrittenFiles(nets) @@ files]

\* sorted([... for p in os.listdir(path) if word in p])
Listed(files, word) == Sorted({n \in DOMAIN files : Contains(n, word)})

\* get_networks(path): os.listdir raises for a missing directory; zip pairs
\* the two sorted lists up to the shorter one.
get_networks(exists, files) ==
    IF ~exists THEN [outcome |-> "error", networks |-> <<>>]
    ELSE LET e_paths == Listed(files, EdgelistWord)
             c_paths == Listed(files, CoordsWord)
             n       == IF Len(e_paths) < Len(c_paths) THEN Len(e_paths) ELSE Len(c_paths)
             got     == [i \in 1..n |->
                            get_G_coords(File(files[e_paths[i]]), File(files[c_paths[i]]))]
         IN  IF \E i \in 1..n : got[i].outcome = "error"
             THEN [outcome |-> "error", networks |-> <<>>]
             ELSE [outcome |-> "ok",
                   networks |-> [i \in 1..n |-> [G |-> got[i].G, coords |-> got[i].coords]]]

\* Three records to build collections from
CollectionPool ==
    <<Record(MakeGraph(Identity(2), {<<0, 1>>}), 2, 0),
      Record(MakeGraph(Identity(2), {<<1, 0>>, <<1, 1>>}), 3, 1),
      Record(MakeGraph(Identity(1), {}), 2, 2)>>

\* The collections handed to save_networks: n records taken in turn from the
\* pool, starting at any of its records
Collections ==
    {[i \in 1..n |-> CollectionPool[((i - 1 + s) % 3) + 1]] : n \in 0..MaxNets, s \in 0..2}

SaveNetworks(nets) ==
    LET r == save_networks(nets, dir_exists, dir_files)
    IN  /\ fn' = "save_networks"
        /\ outcome' = r.outcome
        /\ before' = [exists |-> dir_exists, files |-> dir_files]
        /\ dir_exists' = r.exists
        /\ dir_files' = r.files
        /\ saved' = IF r.outcome = "ok" THEN <<nets>> ELSE saved
        /\ deleted' = IF r.outcome = "ok" THEN 0 ELSE deleted
        /\ fetched' = <<>>
        /\ UNCHANGED <<distVars, degVars, recVars>>

GetNetworks ==
    LET r == get_networks(dir_exists, dir_files)
    IN  /\ fn' = "get_networks"
        /\ outcome' = r.outcome
        /\ fetched' = r.networks
        /\ before' = NoDirectory
        /\ UNCHANGED <<dir_exists, dir_files, saved, deleted, distVars, degVars, recVars>>

\* Outside the program: one file of the directory is deleted
DeleteFile(name) ==
    /\ dir_exists /\ name \in DOMAIN dir_files
    /\ deleted < MaxDeleted
    /\ dir_files' = [n \in DOMAIN dir_files \ {name} |-> dir_files[n]]
    /\ deleted' = deleted + 1
    /\ fn' = "delete_file"
    /\ outcome' = "none"
    /\ before' = NoDirectory
    /\ fetched' = <<>>
    /\ UNCHANGED <<dir_exists, saved, distVars, degVars, recVars>>

\* Outside the program: the directory is removed with all its files
RemoveDirectory ==
    /\ dir_exists
    /\ dir_exists' = FALSE
    /\ dir_files' = NoFiles
    /\ saved' = <<>>
    /\ deleted' = 0
    /\ fn' = "remove_directory"
    /\ outcome' = "none"
    /\ before' = NoDirectory
    /\ fetched' = <<>>
    /\ UNCHANGED <<distVars, degVars, recVars>>

-----------------------------------------------------------------------------
(* Specifications                                                          *)

IdleDist == degrees = <<>> /\ num = 1 /\ x = <<>> /\ y = <<>>
IdleDeg == deg_type = "all" /\ networks = <<>> /\ degs = <<>>
IdleRec ==
    /\ G_coords = Record(MakeGraph(<<>>, {}), 2, 0)
    /\ edgelist_file = NoFile /\ coords_file = NoFile /\ loaded = <<>>
IdleDir ==
    /\ dir_exists = FALSE /\ dir_files = NoFiles /\ saved = <<>> /\ deleted = 0
    /\ before = NoDirectory /\ fetched = <<>>

\* The transforms, called on every degree sequence and bin count of the bounds
InitDist ==
    /\ fn = "none" /\ outcome = "none"
    /\ degrees \in DegreeSequences
    /\ num \in 1..MaxNum
    /\ x = <<>> /\ y = <<>>
    /\ IdleDeg /\ IdleRec /\ IdleDir

NextDist ==
    \/ DegreeDistribution
    \/ LogBinning
    \/ CumulativeDistribution
    \/ LogCumulativeDistribution

SpecDist == InitDist /\ [][NextDist]_vars

\* get_degrees, called with every tag on every list of ring-graph records
DegTypes == {"all", "in", "out", "total"}
DegNetworks ==
    UNION {[1..n -> {Record(G, 2, 0) : G \in RingGraphs}] : n \in 0..MaxRecords}

InitDeg ==
    /\ fn = "none" /\ outcome = "none"
    /\ deg_type \in DegTypes
    /\ networks \in DegNetworks
    /\ degs = <<>>
    /\ IdleDist /\ IdleRec /\ IdleDir

NextDeg == GetDegrees

SpecDeg == InitDeg /\ [][NextDeg]_vars

\* Every record of the bounds, written to and read from a pair of files
Records == {Record(G, k, s) : G \in AllGraphs, k \in {2, 3}, s \in {0, 1}}

InitRec ==
    /\ fn = "none" /\ outcome = "none"
    /\ G_coords \in Records
    /\ edgelist_file = NoFile /\ coords_file = NoFile /\ loaded = <<>>
    /\ IdleDist /\ IdleDeg /\ IdleDir

NextRec ==
    \/ SaveGCoords
    \/ GetGCoords

SpecRec == InitRec /\ [][NextRec]_vars

\* Collections written to and read from one directory
InitDir ==
    /\ fn = "none" /\ outcome = "none"
    /\ IdleDist /\ IdleDeg /\ IdleRec /\ IdleDir

NextDir ==
    \/ \E nets \in Collections : SaveNetworks(nets)
    \/ GetNetworks
    \/ \E name \in DOMAIN dir_files : DeleteFile(name)
    \/ RemoveDirectory

SpecDir == InitDir /\ [][NextDir]_vars

-----------------------------------------------------------------------------
(* The distribution transforms against their contracts                     *)

NonNegative(D) == \A i \in DOMAIN D : D[i] >= 0

\* Equality and order of rationals <<n, d>> with d > 0
RatEq(a, b) == a[1] * b[2] = b[1] * a[2]
RatLeq(a, b) == a[1] * b[2] <= b[1] * a[2]
RatLess(a, b) == a[1] * b[2] < b[1] * a[2]

\* C1: for every non-empty sequence D of non-negative integers,
\* degree_distribution(D) succeeds, k is exactly the distinct values of D in
\* ascending order, and rho_k[i] = (occurrences of k[i] in D) / len(D).
C1_DegreeDistributionExact ==
    (fn = "degree_distribution" /\ degrees # <<>> /\ NonNegative(degrees)) =>
        /\ outcome = "ok"
        /\ x = Ascending(Range(degrees))
        /\ Len(y) = Len(x)
        /\ \A i \in DOMAIN x :
               RatEq(y[i], <<Cardinality({j \in DOMAIN degrees : degrees[j] = x[i]}),
                             Len(degrees)>>)

\* The number of elements of D that are not above the rational s
NotAbove(D, s) == Cardinality({j \in DOMAIN D : D[j] * s[2] <= s[1]})

\* C2: for every non-empty sequence D of non-negative integers and every
\* n_bins >= 1, cumulative_distribution(D, n_bins) returns n_bins sample points
\* with y(s) = (number of elements of D strictly greater than s) / len(D); y is
\* non-increasing as x increases, and y at x = min(D) is
\* (count of D > min(D)) / len(D).
C2_CumulativeIsSurvival ==
    (fn = "cumulative_distribution" /\ degrees # <<>> /\ NonNegative(degrees)) =>
        /\ outcome = "ok"
        /\ Len(x) = num /\ Len(y) = num
        /\ \A i \in 1..num :
               RatEq(y[i], <<Len(degrees) - NotAbove(degrees, x[i]), Len(degrees)>>)
        /\ \A i, j \in 1..num : RatLess(x[i], x[j]) => RatLeq(y[j], y[i])
        /\ \A i \in 1..num :
               RatEq(x[i], <<SeqMin(degrees), 1>>) =>
                   RatEq(y[i], <<Cardinality({j \in DOMAIN degrees :
                                                 degrees[j] > SeqMin(degrees)}),
                                 Len(degrees)>>)
        /\ RatEq(x[1], <<SeqMin(degrees), 1>>)

\* C2 witness: a call with three or more sample points whose survival values
\* really fall from a positive value to zero.
C2_Witness ==
    /\ fn = "cumulative_distribution" /\ outcome = "ok"
    /\ degrees # <<>> /\ NonNegative(degrees)
    /\ num >= 3
    /\ y[1][1] > 0 /\ y[2][1] > 0 /\ y[1][1] > y[2][1] /\ y[num][1] = 0

\* C3: for every degree sequence with min(D) = max(D) and every bin count,
\* log_binning and log_cumulative_distribution end in an error and return no
\* series.
C3_DegenerateRangeRejected ==
    (/\ fn \in {"log_binning", "log_cumulative_distribution"}
     /\ degrees # <<>> /\ NonNegative(degrees)
     /\ SeqMin(degrees) = SeqMax(degrees)) =>
        (outcome = "error" /\ x = <<>> /\ y = <<>>)

\* C4: each of the four transforms, given an empty sequence or one containing
\* a negative integer, ends in an error and returns no series.
C4_MalformedInputRejected ==
    (fn # "none" /\ (degrees = <<>> \/ ~NonNegative(degrees))) =>
        (outcome = "error" /\ x = <<>> /\ y = <<>>)

\* C5: for lo = max(1, min(D)) < hi = max(D) and num >= 2, log_binning puts
\* every degree value of lo..hi in exactly one bin of 1..num, the bins being
\* contiguous ranges; it returns one row per non-empty bin in ascending bin
\* index (at most num rows, x strictly increasing), x the mean of the bin's
\* degree values and y the mean of their frequencies count/len(D); degree 0
\* contributes to no row.
C5_LogBinningRows ==
    (/\ fn = "log_binning" /\ degrees # <<>> /\ NonNegative(degrees)
     /\ IntMax(1, SeqMin(degrees)) < SeqMax(degrees) /\ num >= 2) =>
        LET lo  == IntMax(1, SeqMin(degrees))
            hi  == SeqMax(degrees)
            bin == [d \in lo..hi |-> Digitize(d, lo, hi, num)]
            used == Ascending({bin[d] : d \in lo..hi})
            members(r) == {d \in lo..hi : bin[d] = used[r]}
            id  == [d \in lo..hi |-> d]
            occ == [d \in lo..hi |-> Cardinality({j \in DOMAIN degrees : degrees[j] = d})]
        IN  /\ outcome = "ok"
            /\ \A d \in lo..hi : bin[d] \in 1..num
            /\ \A d, e \in lo..hi : d <= e => bin[d] <= bin[e]
            /\ Len(x) = Len(used) /\ Len(y) = Len(used) /\ Len(x) <= num
            /\ \A r \in DOMAIN x :
                   /\ RatEq(x[r], <<SumOver(members(r), id), Cardinality(members(r))>>)
                   /\ RatEq(y[r], <<SumOver(members(r), occ),
                                    Cardinality(members(r)) * Len(degrees)>>)
            /\ \A r, t \in DOMAIN x : r < t => RatLess(x[r], x[t])
            /\ \A r \in DOMAIN x : RatLeq(<<lo, 1>>, x[r]) /\ RatLeq(x[r], <<hi, 1>>)

\* C5 witness: a sequence with a zero and a gap in its degrees, binned into
\* fewer rows than bins were asked for.
C5_Witness ==
    /\ fn = "log_binning" /\ outcome = "ok"
    /\ \E i \in DOMAIN degrees : degrees[i] = 0
    /\ SeqMax(degrees) >= 3
    /\ num >= 3
    /\ Len(x) >= 2 /\ Len(x) < num
    /\ \E r \in DOMAIN y : y[r][1] = 0

-----------------------------------------------------------------------------
(* get_degrees and the persistence functions against their contracts       *)

\* The position in the flat result of node position i of record r
Offset(nets, r) == SumOver(1..(r - 1), [q \in 1..Len(nets) |-> Len(nets[q].G.nodes)])

\* The degree of node n in G for an orientation, counted on the edge set
Expected(G, t, n) ==
    LET into == Cardinality({e \in Edges(G) : e[2] = n})
        from == Cardinality({e \in Edges(G) : e[1] = n})
    IN  IF t = "in" THEN into ELSE IF t = "out" THEN from ELSE into + from

\* C6: with one or more records, get_degrees ends in an error and returns no
\* sequence for a tag other than 'all', 'in', 'out'; for these it returns the
\* concatenation, in input order, of every node's degree of that orientation,
\* as many values as the records have nodes.
C6_GetDegreesContract ==
    (fn = "get_degrees" /\ networks # <<>>) =>
        IF deg_type \notin {"all", "in", "out"}
        THEN outcome = "error" /\ degs = <<>>
        ELSE /\ outcome = "ok"
             /\ Len(degs) = Offset(networks, Len(networks) + 1)
             /\ \A r \in DOMAIN networks : \A i \in DOMAIN networks[r].G.nodes :
                    degs[Offset(networks, r) + i] =
                        Expected(networks[r].G, deg_type, networks[r].G.nodes[i])

\* C6 witness: an unknown tag met with two records, the first with two nodes
C6_Witness ==
    /\ fn = "get_degrees" /\ outcome = "error"
    /\ deg_type = "total"
    /\ Len(networks) = 2 /\ Len(networks[1].G.nodes) = 2

\* Two records with the same node set, edge set and coordinate arrays
SameRecord(a, b) ==
    /\ Nodes(a.G) = Nodes(b.G)
    /\ Edges(a.G) = Edges(b.G)
    /\ a.coords = b.coords

\* C7: save_G_coords then get_G_coords on the same two files gives a graph
\* with node set exactly 0..N-1 and the same edge set, and as many coordinate
\* arrays, each of length N with the same values in node-id order.
C7_RecordRoundTrip ==
    (fn = "get_G_coords" /\ edgelist_file.present /\ coords_file.present) =>
        LET rec == G_coords
            N   == Len(rec.G.nodes)
        IN  /\ outcome = "ok"
            /\ loaded # <<>>
            /\ Nodes(loaded[1].G) = 0..(N - 1)
            /\ Edges(loaded[1].G) = Edges(rec.G)
            /\ Len(loaded[1].coords) = Len(rec.coords)
            /\ \A a \in DOMAIN rec.coords :
                   /\ Len(loaded[1].coords[a]) = N
                   /\ \A i \in 1..N : loaded[1].coords[a][i] = rec.coords[a][i]

\* C7 witness: a record read back whose graph has an edge and an isolated
\* node, with three coordinate arrays, one value negative
C7_Witness ==
    /\ fn = "get_G_coords" /\ outcome = "ok"
    /\ edgelist_file.present /\ coords_file.present
    /\ Edges(G_coords.G) # {}
    /\ \E n \in Nodes(G_coords.G) : \A e \in Edges(G_coords.G) : e[1] # n /\ e[2] # n
    /\ Len(G_coords.coords) = 3
    /\ \E a \in 1..3 : \E i \in DOMAIN G_coords.coords[a] : G_coords.coords[a][i] < 0

\* C8: save_networks on an existing directory that holds a file ends in an
\* error and leaves the files of the directory and their contents as they
\* were.
C8_NonEmptyDirectoryUntouched ==
    (fn = "save_networks" /\ before.exists /\ DOMAIN before.files # {}) =>
        /\ outcome = "error"
        /\ dir_exists
        /\ dir_files = before.files

\* C8 witness: a refused save_networks on a directory that held files
C8_Witness ==
    /\ fn = "save_networks" /\ outcome = "error"
    /\ before.exists /\ Cardinality(DOMAIN before.files) >= 2

\* C9: get_networks on a directory with different numbers of 'edgelist' and
\* 'coords' files ends in an error and returns no list.
C9_MismatchedListsRejected ==
    (/\ fn = "get_networks" /\ dir_exists
     /\ Len(Listed(dir_files, EdgelistWord)) # Len(Listed(dir_files, CoordsWord))) =>
        (outcome = "error" /\ fetched = <<>>)

\* C10: get_networks on a directory written by save_networks returns exactly
\* the n records written, the record at position i being the i-th written.
C10_CollectionRoundTrip ==
    (fn = "get_networks" /\ saved # <<>> /\ deleted = 0) =>
        /\ outcome = "ok"
        /\ Len(fetched) = Len(saved[1])
        /\ \A i \in DOMAIN fetched : SameRecord(fetched[i], saved[1][i])

=============================================================================
